---- MODULE Spec2Model ----
(***************************************************************************)
(* dolfin_dg: the nonlinear residual/Jacobian dispatcher                   *)
(* (dolfin_dg/dolfinx/nls.py), the residual generators of the PDE          *)
(* operators (dolfin_dg/operators.py) and the homogeneity tensor exercised  *)
(* by test/unit/test_dg_form.py.                                            *)
(*                                                                         *)
(* Three specifications share the module:                                  *)
(*   Spec        the dispatcher GenericSNESProblem driven by a solver,      *)
(*   SpecOps     construction of operators and residual generation,         *)
(*   SpecTensor  the homogeneity tensor of a flux and its tensor product.   *)
(***************************************************************************)
EXTENDS Integers, Sequences, FiniteSets, TLC

VARIABLES
    debug,      \* Python's __debug__: FALSE when run with -O (assert is a no-op)
    inst,       \* the GenericSNESProblem instance, or NoInst
    attempt,    \* the arguments of the last constructor call, or NoInst
    lastError,  \* what the last call raised, "none" when it returned
    x,          \* the solver's iterate vector
    F,          \* the solver's residual vector
    u,          \* the vectors of the solution variables the forms read
    J,          \* the solver's Jacobian matrix
    P,          \* the solver's preconditioner matrix
    xv,         \* the parameter of the iterate the solver last wrote into x
    ftrace,     \* the operations of the last evaluate_residual call, in order
    jtrace,     \* the operations of the last evaluate_jacobian call, in order
    lastCall,   \* iterate and result of the last evaluate_residual call
    prevCall,   \* the same of the call before it
    lastJ,      \* iterate, solution variables and result of the last
                \* evaluate_jacobian call; synced: the last evaluate_residual
                \* call returned and was made with the same iterate
    prevJ,      \* the same of the evaluate_jacobian call before it
    calls,      \* number of solver callbacks made so far
    op,         \* the operator under construction/use (SpecOps), or NoOp
    Hstate,     \* per numerical-flux instance: the arguments of its last setup
    residual,   \* the terms of the last generated residual, in order
    hcalls,     \* the numerical-flux calls of the last generation, in order
    gens,       \* number of residual generations so far
    tcase,      \* the element and gradient value under test (SpecTensor)
    tphase,     \* "init", "tensor" or "product"
    G,          \* the homogeneity tensor computed for tcase
    GF          \* hyper_tensor_product(G, grad u) computed for tcase

nlsVars == <<debug, inst, attempt, lastError, x, F, u, J, P, xv, ftrace, jtrace,
             lastCall, prevCall, lastJ, prevJ, calls>>
opsVars == <<op, Hstate, residual, hcalls, gens>>
tensorVars == <<tcase, tphase, G, GF>>
vars == <<nlsVars, opsVars, tensorVars>>

(***************************************************************************)
(* Bounds of the model.                                                    *)
(***************************************************************************)
\* longest list of residual forms / solution variables handed to the dispatcher
MaxLen == 2
\* iterates the solver writes are Iterate(0) .. Iterate(MaxVal)
MaxVal == 1
\* solver callbacks per behaviour
MaxCalls == 3

NoInst == [none |-> TRUE]
NoVec == <<>>

RECURSIVE SumF(_, _)
SumF(f, S) ==
    IF S = {} THEN 0
    ELSE LET e == CHOOSE e \in S : TRUE IN f[e] + SumF(f, S \ {e})

Min(a, b) == IF a <= b THEN a ELSE b
Max(a, b) == IF a >= b THEN a ELSE b

(***************************************************************************)
(* Distributed vectors.  Two workers; every unknown k has SizeLocal(k)     *)
(* owned degrees of freedom on each worker and one ghost, which mirrors    *)
(* the first owned degree of freedom of the other worker.                  *)
(*   field vector  [worker -> <<owned..., ghost>>]                          *)
(*   nest vector   the sequence of its sub-vectors (field vectors)         *)
(*   block vector  [worker -> owned of unknown 1, .., owned of unknown n,  *)
(*                            ghost of unknown 1, .., ghost of unknown n]  *)
(*   monolithic    [worker -> owned in the mixed space's interleaved       *)
(*                            order, then the ghosts]                      *)
(***************************************************************************)
Ranks == {1, 2}
Other(r) == 3 - r

SizeLocal(k) == IF k = 1 THEN 2 ELSE 1
LocalLen(k) == SizeLocal(k) + 1
OwnedTotal(n) == SumF([q \in 1..n |-> SizeLocal(q)], 1..n)
FlatLen(n) == OwnedTotal(n) + n
OwnedDofs(n) == UNION {{<<k, j>> : j \in 1..SizeLocal(k)} : k \in 1..n}
LocalDofs(n) == UNION {{<<k, j>> : j \in 1..LocalLen(k)} : k \in 1..n}

BlockPos(n, k, j) ==
    IF j <= SizeLocal(k) THEN OwnedTotal(k - 1) + j ELSE OwnedTotal(n) + k

MonoPos(n, k, j) ==
    IF j <= SizeLocal(k)
    THEN Cardinality({d \in OwnedDofs(n) :
                        d[2] < j \/ (d[2] = j /\ d[1] < k)}) + 1
    ELSE OwnedTotal(n) + (n - k + 1)

\* the index maps of the two flat layouts and their inverses, tabulated
PosMap ==
    [layout \in {"monolithic", "block"} |-> [n \in 1..MaxLen |->
        [d \in LocalDofs(n) |->
            IF layout = "monolithic" THEN MonoPos(n, d[1], d[2])
            ELSE BlockPos(n, d[1], d[2])]]]

DofAt ==
    [layout \in {"monolithic", "block"} |-> [n \in 1..MaxLen |->
        [p \in 1..FlatLen(n) |->
            CHOOSE d \in LocalDofs(n) : PosMap[layout][n][d] = p]]]

Pos(layout, n, k, j) == PosMap[layout][n][<<k, j>>]

\* the per-unknown view of a vector stored in the given layout
ToFields(layout, n, v) ==
    IF layout = "nest" THEN v
    ELSE [k \in 1..n |-> [r \in Ranks |->
            [j \in 1..LocalLen(k) |-> v[r][Pos(layout, n, k, j)]]]]

\* the vector of the given layout holding the per-unknown values f
FromFields(layout, n, f) ==
    IF layout = "nest" THEN f
    ELSE [r \in Ranks |-> [p \in 1..Len(DofAt[layout][n]) |->
            LET d == DofAt[layout][n][p] IN f[d[1]][r][d[2]]]]

FillField(k, c) == [r \in Ranks |-> [j \in 1..LocalLen(k) |-> c]]
FillFields(n, c) == [k \in 1..n |-> FillField(k, c)]

\* ghostUpdate(addv=INSERT, mode=FORWARD): every ghost takes its owner's value
GhostForward(fv) ==
    [r \in Ranks |-> [fv[r] EXCEPT ![Len(fv[r])] = fv[Other(r)][1]]]

\* ghostUpdate(addv=ADD, mode=REVERSE): every owner adds what its ghosts hold
GhostReverseAdd(fv) ==
    [r \in Ranks |-> [fv[r] EXCEPT ![1] = @ + fv[Other(r)][Len(fv[Other(r)])]]]

GhostForwardFlat(layout, n, v) ==
    FromFields(layout, n,
        [k \in 1..n |-> GhostForward(ToFields(layout, n, v)[k])])

GhostReverseAddFlat(layout, n, v) ==
    FromFields(layout, n,
        [k \in 1..n |-> GhostReverseAdd(ToFields(layout, n, v)[k])])

\* the iterate the solver writes: owned values only, ghosts are left as they are
DofId(r, k, j) == 4 * (k - 1) + 2 * (j - 1) + r
Iterate(v, n, old) ==
    [k \in 1..n |-> [r \in Ranks |-> [j \in 1..LocalLen(k) |->
        IF j <= SizeLocal(k) THEN v * DofId(r, k, j) ELSE old[k][r][j]]]]

Ev(o, t, k) == [op |-> o, tgt |-> t, k |-> k]

(***************************************************************************)
(* The forms.  L[i] and a[i][k] are the caller's; the model fixes one      *)
(* coupled system: the residual of equation i tested against local degree  *)
(* of freedom j reads every local value (owned and ghost) of every         *)
(* unknown, and a[i][k] is its derivative.                                  *)
(***************************************************************************)
Wt(i, j, k, m) ==
    IF i = k /\ j = m THEN 2 ELSE IF (i + j + k + m) % 2 = 0 THEN 1 ELSE 0

RECURSIVE SumSeq(_, _)
SumSeq(s, i) == IF i > Len(s) THEN 0 ELSE s[i] + SumSeq(s, i + 1)

LocalForm(i, j, r, uf, n) ==
    i + j + SumSeq([p \in 1..Len(DofAt["block"][n]) |->
                      LET d == DofAt["block"][n][p]
                      IN Wt(i, j, d[1], d[2]) * uf[d[1]][r][d[2]]], 1)

\* the one boundary condition of the model: unknown 1, first degree of freedom
\* of worker 1 (a ghost on worker 2), prescribed value 1
TheBC == [k |-> 1, j |-> 1, owner |-> 1, g |-> 1]

\* where worker r holds the degree of freedom of bc (0: nowhere)
LocalSlot(bc, r) ==
    IF r = bc.owner THEN bc.j ELSE IF bc.j = 1 THEN LocalLen(bc.k) ELSE 0

\* dolfinx.fem.assemble_vector: adds the local contributions, owned and ghost
\* rows alike; zeroes nothing, communicates nothing
assemble_vector(Ff, uf, n) ==
    [k \in 1..n |-> [r \in Ranks |-> [j \in 1..LocalLen(k) |->
        Ff[k][r][j] + LocalForm(k, j, r, uf, n)]]]

\* dolfinx.fem.apply_lifting: b <- b - scale * A (g - x0) over the local
\* boundary columns
apply_lifting(Ff, bcs, x0f, n, scale) ==
    [k \in 1..n |-> [r \in Ranks |-> [j \in 1..LocalLen(k) |->
        Ff[k][r][j] - scale *
            SumF([b \in 1..Len(bcs) |->
                    IF LocalSlot(bcs[b], r) = 0 THEN 0
                    ELSE Wt(k, j, bcs[b].k, LocalSlot(bcs[b], r))
                         * (bcs[b].g - x0f[bcs[b].k][r][LocalSlot(bcs[b], r)])],
                 1..Len(bcs))]]]

\* dolfinx.fem.set_bc: owned boundary rows <- scale * (g - x0)
set_bc(Ff, bcs, x0f, n, scale) ==
    [k \in 1..n |-> [r \in Ranks |-> [j \in 1..LocalLen(k) |->
        IF \E b \in 1..Len(bcs) :
              bcs[b].k = k /\ bcs[b].owner = r /\ bcs[b].j = j
        THEN LET b == CHOOSE b \in 1..Len(bcs) :
                        bcs[b].k = k /\ bcs[b].owner = r /\ bcs[b].j = j
             IN scale * (bcs[b].g - x0f[k][r][j])
        ELSE Ff[k][r][j]]]]

(***************************************************************************)
(* class MatrixType and GenericSNESProblem.__init__                        *)
(***************************************************************************)
MatrixType == {"monolithic", "block", "nest"}

\* a call of the constructor: a and L are a single form or a list of n forms,
\* soln_vars a list of lenV functions (one mixed function when monolithic),
\* bcs a list or a single object
CtorArgs ==
    [assemble_type : MatrixType \cup {"other"},
     aIsList : BOOLEAN, LIsList : BOOLEAN,
     n : 1..MaxLen, lenV : 1..MaxLen,
     bcs : {[hasLen |-> TRUE, val |-> <<>>],
            [hasLen |-> TRUE, val |-> <<TheBC>>],
            [hasLen |-> FALSE, val |-> TheBC]},
     use_preconditioner : BOOLEAN]

GenericSNESProblem_init(args) ==
    IF args.assemble_type # "monolithic" /\ debug
       /\ ~(args.aIsList /\ args.LIsList)
    THEN [err |-> "AssertionError", self |-> NoInst]
    ELSE [err |-> "none",
          self |-> [assemble_type |-> args.assemble_type,
                    aIsList |-> args.aIsList,
                    LIsList |-> args.LIsList,
                    n |-> args.n,
                    lenV |-> args.lenV,
                    bcs |-> IF args.bcs.hasLen THEN args.bcs.val
                            ELSE <<args.bcs.val>>,
                    use_preconditioner |-> args.use_preconditioner,
                    F |-> CASE args.assemble_type = "monolithic" -> "F_mono"
                            [] args.assemble_type = "block" -> "F_block"
                            [] args.assemble_type = "nest" -> "F_nest"
                            [] OTHER -> "unbound",
                    J |-> CASE args.assemble_type = "monolithic" -> "J_mono"
                            [] args.assemble_type = "block" -> "J_block"
                            [] args.assemble_type = "nest" -> "J_nest"
                            [] OTHER -> "unbound"]]

\* storage layout of the solver's vectors for an instance
LayoutOf(self) ==
    IF self.assemble_type \in MatrixType THEN self.assemble_type ELSE "block"

\* number of functions the forms and soln_vars refer to
NU(self) == Max(self.n, self.lenV)

(***************************************************************************)
(* evaluate_residual: F_mono, F_block, F_nest.  Each returns the vectors   *)
(* as the call leaves them, what it raised, and the operations it made.    *)
(***************************************************************************)
Ret(x1, u1, F1, err, trace) ==
    [x |-> x1, u |-> u1, F |-> F1, err |-> err, trace |-> trace]

FWD == "ghostUpdate(INSERT,FORWARD)"
REV == "ghostUpdate(ADD,REVERSE)"

\* x.copy(self.soln_vars.vector): the owned entries
VecCopy(src, dst, n) ==
    [r \in Ranks |-> [p \in 1..Len(dst[r]) |->
        IF p <= OwnedTotal(n) THEN src[r][p] ELSE dst[r][p]]]

F_mono(self, x0, F0, u0) ==
    LET n == self.n
        x1 == GhostForwardFlat("monolithic", n, x0)
        u1 == VecCopy(x1, u0, n)
        u2 == GhostForwardFlat("monolithic", n, u1)
        F1 == [r \in Ranks |-> [p \in 1..Len(F0[r]) |-> 0]]
        t1 == <<Ev(FWD, "x", 0), Ev("copy", "u", 0), Ev(FWD, "u", 0),
                Ev("set(0.0)", "F", 0)>>
        xf == ToFields("monolithic", n, x1)
        F2 == assemble_vector(ToFields("monolithic", n, F1),
                              ToFields("monolithic", n, u2), n)
        t2 == Append(t1, Ev("assemble_vector", "F", 0))
        F3 == apply_lifting(F2, self.bcs, xf, n, -1)
        t3 == Append(t2, Ev("apply_lifting", "F", 0))
        F4 == [k \in 1..n |-> GhostReverseAdd(F3[k])]
        t4 == Append(t3, Ev(REV, "F", 0))
        F5 == set_bc(F4, self.bcs, xf, n, -1)
        t5 == Append(t4, Ev("set_bc", "F", 0))
    IN  IF self.LIsList THEN Ret(x1, u2, F1, "TypeError", t1)
        ELSE IF self.aIsList
        THEN Ret(x1, u2, FromFields("monolithic", n, F2), "TypeError", t2)
        ELSE Ret(x1, u2, FromFields("monolithic", n, F5), "none", t5)

\* the loop of F_block over self.soln_vars, from variable q on
RECURSIVE block_copy(_, _, _, _, _, _)
block_copy(x1, u0, q, lenV, n, offset) ==
    IF q > lenV THEN [u |-> u0, err |-> "none", trace |-> <<>>]
    ELSE
    LET size_local == SizeLocal(q)
        slice == [r \in Ranks |->
                    SubSeq(SubSeq(x1[r], 1, OwnedTotal(n)), offset + 1,
                           Min(offset + size_local, OwnedTotal(n)))]
        \* numpy assigns a slice of the same length, or broadcasts one element
        fits == \A r \in Ranks : Len(slice[r]) \in {size_local, 1}
        assigned == [u0 EXCEPT ![q] = [r \in Ranks |->
                        [j \in 1..LocalLen(q) |->
                            IF j > size_local THEN u0[q][r][j]
                            ELSE IF Len(slice[r]) = 1 THEN slice[r][1]
                            ELSE slice[r][j]]]]
        updated == [assigned EXCEPT ![q] = GhostForward(assigned[q])]
        rest == block_copy(x1, updated, q + 1, lenV, n, offset + size_local)
    IN  IF ~fits THEN [u |-> u0, err |-> "ValueError", trace |-> <<>>]
        ELSE [rest EXCEPT !.trace = <<Ev("assign", "u", q), Ev(FWD, "u", q)>> \o @]

\* dolfinx.fem.assemble_vector_block(b, L, a, bcs, x0, scale): assembles every
\* block, lifts, accumulates the ghosts on their owners and sets the boundary
\* rows; it does not zero b
assemble_vector_block(F1, self, x1, u1, scale) ==
    LET n == self.n
        xf == ToFields("block", n, x1)
        b2 == assemble_vector(ToFields("block", n, F1), [k \in 1..n |-> u1[k]], n)
        b3 == apply_lifting(b2, self.bcs, xf, n, scale)
        b4 == GhostReverseAddFlat("block", n, FromFields("block", n, b3))
        b5 == set_bc(ToFields("block", n, b4), self.bcs, xf, n, scale)
    IN  [F |-> FromFields("block", n, b5),
         trace |-> <<Ev("assemble_vector", "F", 0), Ev("apply_lifting", "F", 0),
                     Ev(REV, "F", 0), Ev("set_bc", "F", 0)>>]

\* an F_block whose first segment starts one entry into the iterate
F_block_shifted(self, x0, F0, u0) ==
    LET n == self.n
        x1 == GhostForwardFlat("block", n, x0)
        t1 == <<Ev(FWD, "x", 0)>>
        cp == block_copy(x1, u0, 1, self.lenV, n, 1)
        F1 == [r \in Ranks |-> [p \in 1..Len(F0[r]) |-> 0]]
        t2 == (t1 \o cp.trace) \o <<Ev("set(0.0)", "F", 0)>>
        as == assemble_vector_block(F1, self, x1, cp.u, -1)
    IN  IF cp.err # "none" THEN Ret(x1, cp.u, F0, cp.err, t1 \o cp.trace)
        ELSE IF ~(self.LIsList /\ self.aIsList)
        THEN Ret(x1, cp.u, F1, "TypeError", t2)
        ELSE Ret(x1, cp.u, as.F, "none", t2 \o as.trace)

F_block(self, x0, F0, u0) ==
    LET n == self.n
        x1 == GhostForwardFlat("block", n, x0)
        t1 == <<Ev(FWD, "x", 0)>>
        cp == block_copy(x1, u0, 1, self.lenV, n, 0)
        F1 == [r \in Ranks |-> [p \in 1..Len(F0[r]) |-> 0]]
        t2 == (t1 \o cp.trace) \o <<Ev("set(0.0)", "F", 0)>>
        as == assemble_vector_block(F1, self, x1, cp.u, -1)
    IN  IF cp.err # "none" THEN Ret(x1, cp.u, F0, cp.err, t1 \o cp.trace)
        ELSE IF ~(self.LIsList /\ self.aIsList)
        THEN Ret(x1, cp.u, F1, "TypeError", t2)
        ELSE Ret(x1, cp.u, as.F, "none", t2 \o as.trace)

\* the loop of F_nest over zip(x.getNestSubVecs(), self.soln_vars)
RECURSIVE nest_copy(_, _, _, _)
nest_copy(x0, u0, q, last) ==
    IF q > last THEN [x |-> x0, u |-> u0, trace |-> <<>>]
    ELSE
    LET x1 == [x0 EXCEPT ![q] = GhostForward(x0[q])]
        u1 == [u0 EXCEPT ![q] = x1[q]]
        rest == nest_copy(x1, u1, q + 1, last)
    IN  [rest EXCEPT !.trace = <<Ev(FWD, "x", q), Ev("copyLocal", "u", q)>> \o @]

F_nest(self, x0, F0, u0) ==
    LET n == self.n
        cp == nest_copy(x0, u0, 1, Min(n, self.lenV))
        \* dolfinx.fem.assemble_vector_nest(F, L) adds into F as it stands
        F2 == assemble_vector(F0, [k \in 1..n |-> cp.u[k]], n)
        t2 == cp.trace \o [k \in 1..n |-> Ev("assemble_vector", "F", k)]
        F3 == apply_lifting(F2, self.bcs, cp.x, n, -1)
        t3 == t2 \o [k \in 1..n |-> Ev("apply_lifting", "F", k)]
        F4 == [k \in 1..n |-> GhostReverseAdd(F3[k])]
        t4 == t3 \o [k \in 1..n |-> Ev(REV, "F", k)]
        F5 == set_bc(F4, self.bcs, cp.x, n, -1)
        t5 == (t4 \o [k \in 1..n |-> Ev("set_bc", "F", k)])
              \o <<Ev("assemble", "F", 0)>>
    IN  IF ~self.LIsList THEN Ret(cp.x, cp.u, F0, "TypeError", cp.trace)
        ELSE IF ~self.aIsList THEN Ret(cp.x, cp.u, F2, "TypeError", t2)
        ELSE Ret(cp.x, cp.u, F5, "none", t5)

\* how a call ended: the last entry of its trace
Ended(r) ==
    [r EXCEPT !.trace = Append(@, IF r.err = "none" THEN Ev("return", "", 0)
                                  ELSE Ev("raise", r.err, 0))]

\* self.F(snes, x, F)
CallF(self, x0, F0, u0) ==
    Ended(CASE self.F = "F_mono" -> F_mono(self, x0, F0, u0)
            [] self.F = "F_block" -> F_block(self, x0, F0, u0)
            [] self.F = "F_nest" -> F_nest(self, x0, F0, u0)
            [] OTHER -> Ret(x0, u0, F0, "AttributeError", <<>>))

(***************************************************************************)
(* evaluate_jacobian: J_mono, J_block, J_nest.  A matrix holds one value   *)
(* per block (i, k), the diagonal value of its boundary rows, and whether  *)
(* it is finalized.                                                        *)
(***************************************************************************)
Blocks(n) == (1..n) \X (1..n)

NewMat(n, c) ==
    [vals |-> [b \in Blocks(n) |-> c], diag |-> c, state |-> "assembled"]

\* the value the form a[i][k] (or the preconditioner form P[i][k]) assembles
FormEntry(form, i, k, uf) ==
    IF form = "P" /\ i # k THEN 0 ELSE Wt(i, 1, k, 1) + uf[k][1][1]

\* a J_* method that assembles on top of what the matrix holds
zeroEntries_skipped(M) == M

zeroEntries(M) ==
    [M EXCEPT !.vals = [b \in DOMAIN M.vals |-> 0], !.diag = 0]

\* dolfinx.fem.assemble_matrix / _block / _nest: adds the entries of every
\* block and the diagonal of the boundary rows; the matrix is left unfinalized
assemble_matrix(M, form, bcs, diagonal, uf) ==
    [vals |-> [b \in DOMAIN M.vals |-> M.vals[b] + FormEntry(form, b[1], b[2], uf)],
     diag |-> M.diag + (IF Len(bcs) > 0 THEN diagonal ELSE 0),
     state |-> "unassembled"]

\* a J_* method that returns without the closing J.assemble() / P.assemble()
MatAssemble_skipped(M) == M

MatAssemble(M) == [M EXCEPT !.state = "assembled"]

RetJ(J1, P1, err, trace) == [J |-> J1, P |-> P1, err |-> err, trace |-> trace]

\* the body shared by the three J_* methods: typeOk tells whether the
\* layout's assemble routine accepts self.a
J_body(self, J0, P0, uf, typeOk) ==
    LET J1 == zeroEntries(J0)
        t1 == <<Ev("zeroEntries", "J", 0)>>
        J2 == assemble_matrix(J1, "a", self.bcs, 1, uf)
        t2 == Append(t1, Ev("assemble_matrix", "J", 0))
        J3 == MatAssemble(J2)
        t3 == Append(t2, Ev("assemble", "J", 0))
        P1 == zeroEntries(P0)
        P2 == assemble_matrix(P1, "P", self.bcs, 1, uf)
        P3 == MatAssemble(P2)
        t4 == t3 \o <<Ev("zeroEntries", "P", 0), Ev("assemble_matrix", "P", 0),
                      Ev("assemble", "P", 0)>>
    IN  IF ~typeOk THEN RetJ(J1, P0, "TypeError", t1)
        ELSE IF self.use_preconditioner THEN RetJ(J3, P3, "none", t4)
        ELSE RetJ(J3, P0, "none", t3)

J_mono(self, J0, P0, u0) ==
    J_body(self, J0, P0, ToFields("monolithic", self.n, u0), ~self.aIsList)

J_block(self, J0, P0, u0) ==
    J_body(self, J0, P0, [k \in 1..self.n |-> u0[k]], self.aIsList)

J_nest(self, J0, P0, u0) ==
    J_body(self, J0, P0, [k \in 1..self.n |-> u0[k]], self.aIsList)

\* self.J(snes, x, J, P)
CallJ(self, J0, P0, u0) ==
    Ended(CASE self.J = "J_mono" -> J_mono(self, J0, P0, u0)
            [] self.J = "J_block" -> J_block(self, J0, P0, u0)
            [] self.J = "J_nest" -> J_nest(self, J0, P0, u0)
            [] OTHER -> RetJ(J0, P0, "AttributeError", <<>>))

(***************************************************************************)
(* The dispatcher and its solver.                                          *)
(***************************************************************************)
NoCall == [ok |-> FALSE, v |-> 0, F |-> NoVec]
NoJCall == [ok |-> FALSE, v |-> 0, synced |-> FALSE, u |-> NoVec,
            J0 |-> NoVec, J |-> NoVec, P0 |-> NoVec, P |-> NoVec]
NoOp == [none |-> TRUE]

OpsIdle ==
    /\ op = NoOp /\ Hstate = <<>> /\ residual = <<>> /\ hcalls = <<>> /\ gens = 0
TensorIdle ==
    /\ tcase = NoOp /\ tphase = "init" /\ G = <<>> /\ GF = <<>>

Init ==
    /\ debug \in BOOLEAN
    /\ inst = NoInst /\ attempt = NoInst /\ lastError = "none"
    /\ x = NoVec /\ F = NoVec /\ u = NoVec /\ J = NoVec /\ P = NoVec
    /\ xv = 0 /\ ftrace = <<>> /\ jtrace = <<>>
    /\ lastCall = NoCall /\ prevCall = NoCall /\ calls = 0
    /\ lastJ = NoJCall /\ prevJ = NoJCall
    /\ OpsIdle /\ TensorIdle

\* GenericSNESProblem(a, L, P, bcs, soln_vars, assemble_type, use_preconditioner);
\* on success the solver creates its vectors and matrices for the layout, the
\* residual vector and the matrices holding c
Construct(args, c) ==
    /\ attempt = NoInst
    /\ args.assemble_type = "monolithic" => args.lenV = args.n
    /\ \E r \in {GenericSNESProblem_init(args)} :
       LET layout == LayoutOf(r.self)
           n == args.n
       IN  /\ attempt' = args
           /\ lastError' = r.err
           /\ inst' = r.self
           /\ IF r.err = "none"
              THEN /\ x' = FromFields(layout, n, FillFields(n, 0))
                   /\ F' = FromFields(layout, n, FillFields(n, c))
                   /\ u' = IF layout = "monolithic"
                           THEN FromFields(layout, n, FillFields(n, 0))
                           ELSE FillFields(NU(r.self), 0)
                   /\ J' = NewMat(n, c)
                   /\ P' = NewMat(n, c)
              ELSE UNCHANGED <<x, F, u, J, P>>
    /\ UNCHANGED <<debug, xv, ftrace, jtrace, lastCall, prevCall, lastJ, prevJ,
                   calls>>
    /\ UNCHANGED <<opsVars, tensorVars>>

\* the solver writes a new iterate into the owned entries of x
SetIterate(v) ==
    /\ inst # NoInst
    /\ v # xv
    /\ LET layout == LayoutOf(inst)
       IN  x' = FromFields(layout, inst.n,
                    Iterate(v, inst.n, ToFields(layout, inst.n, x)))
    /\ xv' = v
    /\ UNCHANGED <<debug, inst, attempt, lastError, F, u, J, P, ftrace, jtrace,
                   lastCall, prevCall, lastJ, prevJ, calls>>
    /\ UNCHANGED <<opsVars, tensorVars>>

\* the solver calls problem.F(snes, x, F)
EvalResidual ==
    /\ inst # NoInst
    /\ calls < MaxCalls
    /\ \E r \in {CallF(inst, x, F, u)} :
           /\ x' = r.x /\ u' = r.u /\ F' = r.F
           /\ lastError' = r.err
           /\ ftrace' = r.trace
           /\ lastCall' = [ok |-> r.err = "none", v |-> xv, F |-> r.F]
    /\ prevCall' = lastCall
    /\ calls' = calls + 1
    /\ UNCHANGED <<debug, inst, attempt, J, P, xv, jtrace, lastJ, prevJ>>
    /\ UNCHANGED <<opsVars, tensorVars>>

\* the solver calls problem.J(snes, x, J, P)
EvalJacobian ==
    /\ inst # NoInst
    /\ calls < MaxCalls
    /\ \E r \in {CallJ(inst, J, P, u)} :
           /\ J' = r.J /\ P' = r.P
           /\ lastError' = r.err
           /\ jtrace' = r.trace
           /\ lastJ' = [ok |-> r.err = "none", v |-> xv,
                        synced |-> lastCall.ok /\ lastCall.v = xv,
                        u |-> u, J0 |-> J, J |-> r.J, P0 |-> P, P |-> r.P]
    /\ prevJ' = lastJ
    /\ calls' = calls + 1
    /\ UNCHANGED <<debug, inst, attempt, x, F, u, xv, ftrace, lastCall, prevCall>>
    /\ UNCHANGED <<opsVars, tensorVars>>

Next ==
    \/ \E args \in CtorArgs, c \in {0, 7} : Construct(args, c)
    \/ \E v \in 0..MaxVal : SetIterate(v)
    \/ EvalResidual
    \/ EvalJacobian

Spec == Init /\ [][Next]_vars

(***************************************************************************)
(* Properties of the dispatcher.                                           *)
(***************************************************************************)
Returned(trace) == Len(trace) > 0 /\ trace[Len(trace)].op = "return"

\* the owned entries of a vector of the given layout, per unknown and worker
Owned(layout, n, v) ==
    [k \in 1..n |-> [r \in Ranks |->
        SubSeq(ToFields(layout, n, v)[k][r], 1, SizeLocal(k))]]

\* C1: in every layout, two evaluate_residual calls in a row with the same
\* iterate and the same output vector leave the same contents in F, whatever
\* F held before.
C1_ResidualIdempotent ==
    (lastCall.ok /\ prevCall.ok /\ lastCall.v = prevCall.v)
        => lastCall.F = prevCall.F

\* C2: a block or nest construction whose a or L is not a list is rejected at
\* construction with a type error, and no instance exists.
C2_NonListRejectedWithTypeError ==
    (attempt # NoInst /\ attempt.assemble_type \in {"block", "nest"}
        /\ ~(attempt.aIsList /\ attempt.LIsList))
        => (inst = NoInst /\ lastError = "TypeError")

\* C3: every instance with the block or nest layout has as many residual
\* forms as solution variables.
C3_ListLengthsMatch ==
    (inst # NoInst /\ inst.assemble_type \in {"block", "nest"}
        /\ inst.LIsList /\ inst.aIsList)
        => inst.n = inst.lenV

\* C4: an assemble_type outside MatrixType is rejected at construction, and
\* every instance has F and J bound to the pair of its layout.
C4_LayoutSupported ==
    /\ (attempt # NoInst /\ attempt.assemble_type \notin MatrixType)
          => (inst = NoInst /\ lastError # "none")
    /\ inst # NoInst =>
          \/ inst.assemble_type = "monolithic" /\ inst.F = "F_mono" /\ inst.J = "J_mono"
          \/ inst.assemble_type = "block" /\ inst.F = "F_block" /\ inst.J = "J_block"
          \/ inst.assemble_type = "nest" /\ inst.F = "F_nest" /\ inst.J = "J_nest"

\* positions in a trace
At(trace, e) == {i \in 1..Len(trace) : trace[i] = e}
Accumulating(trace) ==
    {i \in 1..Len(trace) : trace[i].op \in {"assemble_vector", "apply_lifting"}}
\* the sub-vectors of the solver's vectors (0: the vector itself)
Subs(self) == IF self.assemble_type = "nest" THEN 1..self.n ELSE {0}
\* the solution variables the iterate is copied into
CopiedVars(self) ==
    CASE self.assemble_type = "monolithic" -> {0}
      [] self.assemble_type = "block" -> 1..self.lenV
      [] OTHER -> 1..Min(self.n, self.lenV)

\* the reverse/add ghost update of every (sub-)vector of F follows the last
\* local accumulation into F
ReverseAfterAccumulation(self, trace) ==
    \A k \in Subs(self) : \E i \in At(trace, Ev(REV, "F", k)) :
        \A a \in Accumulating(trace) : a < i

\* C5: every evaluate_residual call that returns made a forward/insert ghost
\* update of the whole iterate, brought the ghosts of the solution variables it
\* copied into up to date, both before any residual contribution was
\* assembled, and made a reverse/add ghost update of the residual after the
\* local and lifting contributions and before returning.
C5_GhostUpdateOrder ==
    (inst # NoInst /\ Returned(ftrace)) =>
        /\ Accumulating(ftrace) # {}
        /\ \A k \in Subs(inst) : \E i \in At(ftrace, Ev(FWD, "x", k)) :
              \A a \in Accumulating(ftrace) : i < a
        /\ \A q \in CopiedVars(inst) :
              \E i \in 1..Len(ftrace) :
                 /\ ftrace[i].tgt = "u" /\ ftrace[i].k = q
                 /\ ftrace[i].op \in {FWD, "copyLocal"}
                 /\ \A a \in Accumulating(ftrace) : i < a
        /\ ReverseAfterAccumulation(inst, ftrace)

\* the last operation of a returned call on matrix m is its assemble()
LastIsAssemble(trace, m) ==
    LET on == {i \in 1..Len(trace) : trace[i].tgt = m}
    IN  /\ on # {}
        /\ \A i \in on : trace[i].op = "assemble" \/ \E i2 \in on : i2 > i

\* C6: when evaluate_jacobian returns, J (and P when use_preconditioner is
\* set) is finalized and assemble() was the last operation on it; when
\* evaluate_residual returns, the residual has been accumulated across the
\* workers after the last local contribution.
C6_OutputsFullyAssembled ==
    /\ (inst # NoInst /\ Returned(jtrace)) =>
          /\ LastIsAssemble(jtrace, "J") /\ J.state = "assembled"
          /\ inst.use_preconditioner =>
                LastIsAssemble(jtrace, "P") /\ P.state = "assembled"
    /\ (inst # NoInst /\ Returned(ftrace)) =>
          /\ Accumulating(ftrace) # {}
          /\ ReverseAfterAccumulation(inst, ftrace)

C6_Witness ==
    /\ inst # NoInst /\ Returned(jtrace) /\ Returned(ftrace)
    /\ inst.use_preconditioner /\ inst.assemble_type = "nest"
    /\ P.vals # [b \in Blocks(inst.n) |-> 0]

\* what the monolithic layout computes for the per-unknown iterate xf, from a
\* zeroed output vector
MonoReference(self, xf) ==
    LET n == self.n
        zero == FromFields("monolithic", n, FillFields(n, 0))
        mono == [self EXCEPT !.assemble_type = "monolithic",
                             !.aIsList = FALSE, !.LIsList = FALSE]
    IN  Owned("monolithic", n,
              F_mono(mono, FromFields("monolithic", n, xf), zero, zero).F)

\* C7: for a coupled system of two equations without boundary conditions, the
\* residual a returned evaluate_residual call leaves in F holds, per unknown
\* and worker, the values the monolithic layout computes for the same iterate.
C7_LayoutEquivalence ==
    (inst # NoInst /\ lastCall.ok /\ lastCall.F = F /\ lastCall.v = xv
        /\ inst.n = 2 /\ inst.lenV = 2 /\ inst.bcs = <<>>)
        => Owned(LayoutOf(inst), 2, F)
             = MonoReference(inst, ToFields(LayoutOf(inst), 2, x))

\* the per-unknown values of the solution variables the Jacobian forms read
SolnFields(self, u0) ==
    IF self.assemble_type = "monolithic"
    THEN ToFields("monolithic", self.n, u0)
    ELSE [k \in 1..self.n |-> u0[k]]

\* the finalized matrix the forms of a (or P) alone determine: every block
\* holds what its form assembles at the solution variables u0, the boundary
\* rows hold the diagonal value 1.0
AssembledFrom(self, form, u0) ==
    [vals |-> [b \in Blocks(self.n) |->
                  FormEntry(form, b[1], b[2], SolnFields(self, u0))],
     diag |-> IF Len(self.bcs) > 0 THEN 1 ELSE 0,
     state |-> "assembled"]

Assigned(trace) ==
    {q \in 1..MaxLen + 1 : At(trace, Ev("assign", "u", q)) # {}}
\* o_k: the sum of the local sizes of the variables before variable k
SegmentOffset(k) == SumF([i \in 1..(k - 1) |-> SizeLocal(i)], 1..(k - 1))

\* the events of a trace with the given operation on the given vector
OpsOn(trace, o, t) ==
    {i \in 1..Len(trace) : trace[i].op = o /\ trace[i].tgt = t}

\* C12: in the block layout, after an evaluate_residual call every solution
\* variable k the call assigned holds on each worker exactly the segment
\* x[o_k : o_k + s_k] of the owned part of the flat iterate, with o_k the sum
\* of the local sizes of the variables before it and s_k its own, and its
\* ghost holds the owner's value; the variables are assigned in order, each
\* followed by its forward ghost update; a call that gets to zeroing the
\* residual has assigned every solution variable, and all assignments and
\* ghost updates precede the zeroing and the assembly.
C12_BlockSegments ==
    (inst # NoInst /\ inst.F = "F_block" /\ Len(ftrace) > 0 /\ lastCall.v = xv) =>
        /\ \A q \in Assigned(ftrace) : \A r \in Ranks :
              /\ SegmentOffset(q) + SizeLocal(q) <= OwnedTotal(inst.n)
              /\ \A j \in 1..SizeLocal(q) :
                    u[q][r][j] = x[r][SegmentOffset(q) + j]
              /\ u[q][r][LocalLen(q)] = u[q][Other(r)][1]
        /\ \A q \in Assigned(ftrace) :
              \E i \in 1..(Len(ftrace) - 1) :
                  /\ At(ftrace, Ev("assign", "u", q)) = {i}
                  /\ ftrace[i + 1] = Ev(FWD, "u", q)
                  /\ \A q2 \in Assigned(ftrace) : q2 < q =>
                        \A i2 \in At(ftrace, Ev("assign", "u", q2)) : i2 < i
        /\ \A z \in OpsOn(ftrace, "set(0.0)", "F") \cup Accumulating(ftrace) :
              /\ Assigned(ftrace) = 1..inst.lenV
              /\ \A i \in 1..Len(ftrace) :
                    ftrace[i].tgt \in {"x", "u"} => i < z
              /\ \A a \in Accumulating(ftrace) :
                    \E z0 \in OpsOn(ftrace, "set(0.0)", "F") : z0 < a

\* a returned call on two solution variables with a nonzero iterate
C12_Witness ==
    /\ inst # NoInst /\ inst.F = "F_block" /\ Returned(ftrace) /\ lastCall.ok
    /\ lastCall.v = xv /\ xv # 0
    /\ inst.n = 2 /\ inst.lenV = 2
    /\ Assigned(ftrace) = {1, 2}
    /\ u[2][1][1] = x[1][3] /\ u[1][1][2] = x[1][2] /\ x[1][3] # x[1][2]
    /\ Accumulating(ftrace) # {}

(***************************************************************************)
(* operators.py: boundary conditions, operators, residual generation.      *)
(* A residual is the sequence of the terms added to it; a term names the   *)
(* boundary-term path it belongs to, the flux it is built from, how it is  *)
(* built and the boundary condition it is for (0: none).                   *)
(***************************************************************************)
\* longest list of boundary conditions handed to an operator
MaxBCs == 3
\* residual generations per behaviour
MaxGens == 2

BCClasses == {"DGDirichletBC", "DGNeumannBC", "DGAdiabticWallBC"}

OperatorClasses ==
    {"EllipticOperator", "MaxwellOperator", "HyperbolicOperator",
     "CompressibleEulerOperator", "CompressibleNavierStokesOperator",
     "CompressibleNavierStokesOperatorEntropyFormulation"}

\* the lists of boundary-condition classes an operator may be given
RECURSIVE SeqsUpTo(_, _)
SeqsUpTo(S, n) ==
    IF n = 0 THEN {<<>>}
    ELSE LET shorter == SeqsUpTo(S, n - 1)
         IN shorter \cup {Append(q, e) : q \in {t \in shorter : Len(t) = n - 1}, e \in S}

\* the argument bcs: a list of conditions, or one condition that is no list
BCArgs ==
    {[hasLen |-> TRUE, val |-> q] : q \in SeqsUpTo(BCClasses, MaxBCs)}
        \cup {[hasLen |-> FALSE, val |-> c] : c \in BCClasses}

\* DGBC(boundary, function): the i-th condition of the list is on boundary i
\* and prescribes function i
DGBC(cls, i) == [cls |-> cls, boundary |-> i, function |-> i]

\* if not hasattr(bcs, '__len__'): bcs = [bcs]
AsList(bcs) ==
    IF bcs.hasLen THEN [i \in 1..Len(bcs.val) |-> DGBC(bcs.val[i], i)]
    ELSE <<DGBC(bcs.val, 1)>>

\* a filter that takes every condition for an instance of every class
IsInstance_any(bc, cls) == bc.cls \in BCClasses

IsInstance(bc, cls) == bc.cls = cls

\* [bc for bc in bcs if isinstance(bc, cls)]
OfClass(bcs, cls) == SelectSeq(bcs, LAMBDA bc : IsInstance(bc, cls))

DGFemFormulation_init(cls, bcs) ==
    [cls |-> cls,
     given |-> AsList(bcs),
     dirichlet_bcs |-> OfClass(AsList(bcs), "DGDirichletBC"),
     neumann_bcs |-> OfClass(AsList(bcs), "DGNeumannBC")]

\* the numerical flux of an operator: HyperbolicOperator's default argument
\* is one LocalLaxFriedrichs shared by every operator built without H; the
\* Euler operators build their own
FluxOf(cls) ==
    CASE cls = "HyperbolicOperator" -> "shared"
      [] cls \in {"CompressibleEulerOperator", "CompressibleNavierStokesOperator",
                  "CompressibleNavierStokesOperatorEntropyFormulation"} -> "own"
      [] OTHER -> "none"

Operator_init(cls, bcs) ==
    LET base == DGFemFormulation_init(cls, bcs) @@ ("H" :> FluxOf(cls))
    IN  IF cls = "CompressibleNavierStokesOperator"
        THEN base @@ ("adiabtic_wall_bcs" :> OfClass(AsList(bcs), "DGAdiabticWallBC"))
        ELSE base

\* terms in which the bulk viscous flux stands for the adiabatic one
Term_bulk(path, flux, via, bc) ==
    [path |-> path, flux |-> IF flux = "F_v_adiabatic" THEN "F_v" ELSE flux,
     via |-> via, bc |-> bc]

Term(path, flux, via, bc) == [path |-> path, flux |-> flux, via |-> via, bc |-> bc]

\* the result of a generation: the residual, the numerical-flux calls made and
\* what each numerical flux has cached
Gen(res, hc, hs) == [residual |-> res, hcalls |-> hc, Hstate |-> hs]

\* EllipticOperator.generate_fem_formulation (MaxwellOperator's has the same
\* shape with the curl term)
RECURSIVE EachBC(_, _, _, _)
EachBC(bcs, path, flux, via) ==
    IF bcs = <<>> THEN <<>>
    ELSE <<Term(path, flux, via, bcs[1].function)>>
            \o EachBC(Tail(bcs), path, flux, via)

Elliptic_generate(self, flux, via) ==
    <<Term("volume", flux, "dx", 0), Term("interior", flux, via, 0)>>
        \o EachBC(self.dirichlet_bcs, "dirichlet", flux, via)
        \o EachBC(self.neumann_bcs, "neumann", flux, via)

\* H.setup(F_c, a, b, n); the h-th flux caches the arguments
\* what a flux object caches before its first setup: no arguments
Uninitialized == <<>>

\* a flux whose setup is never called: nothing is cached
HSetup_skipped(g, h, args) == Gen(g.residual, g.hcalls, g.Hstate)

HSetup(g, h, args) ==
    Gen(g.residual, Append(g.hcalls, [call |-> "setup", H |-> h, args |-> args,
                                       cached |-> g.Hstate[h]]),
        [g.Hstate EXCEPT ![h] = args])

\* residual += inner(H.interior(...) or H.exterior(...), ...) * measure
HUse(g, h, call, args, term) ==
    Gen(Append(g.residual, term),
        Append(g.hcalls, [call |-> call, H |-> h, args |-> args,
                          cached |-> g.Hstate[h]]),
        g.Hstate)

\* the loop of HyperbolicOperator.generate_fem_formulation over dirichlet_bcs
RECURSIVE Hyperbolic_dirichlet(_, _, _)
Hyperbolic_dirichlet(g, h, bcs) ==
    IF bcs = <<>> THEN g
    ELSE LET args == <<"F_c", "u", bcs[1].function, "n">>
         IN Hyperbolic_dirichlet(
                HUse(HSetup(g, h, args), h, "exterior", args,
                     Term("dirichlet", "F_c", "H", bcs[1].function)),
                h, Tail(bcs))

Hyperbolic_generate(self, g0) ==
    LET h == self.H
        inner == <<"F_c", "u(+)", "u(-)", "n(+)">>
        g1 == Gen(Append(g0.residual, Term("volume", "F_c", "dx", 0)),
                  g0.hcalls, g0.Hstate)
        g2 == HUse(HSetup(g1, h, inner), h, "interior", inner,
                   Term("interior", "F_c", "H", 0))
        g3 == Hyperbolic_dirichlet(g2, h, self.dirichlet_bcs)
    IN  Gen(g3.residual \o EachBC(self.neumann_bcs, "neumann", "F_c", "direct"),
            g3.hcalls, g3.Hstate)

\* the loop of CompressibleNavierStokesOperator.generate_fem_formulation over
\* adiabtic_wall_bcs
RECURSIVE NavierStokes_adiabatic(_, _, _)
NavierStokes_adiabatic(g, h, bcs) ==
    IF bcs = <<>> THEN g
    ELSE LET args == <<"F_c", "u", bcs[1].function, "n">>
             g1 == HUse(HSetup(g, h, args), h, "exterior", args,
                        Term("adiabatic", "F_c", "H", bcs[1].function))
         IN NavierStokes_adiabatic(
                Gen(Append(g1.residual,
                           Term("adiabatic", "F_v_adiabatic", "sipg", bcs[1].function)),
                    g1.hcalls, g1.Hstate),
                h, Tail(bcs))

\* self.generate_fem_formulation(u, v) of each class
generate_fem_formulation(self, hs) ==
    LET g0 == Gen(<<>>, <<>>, hs)
        ell == Gen(Elliptic_generate(self, "F_v", "sipg"), <<>>, hs)
    IN  CASE self.cls = "EllipticOperator" -> ell
          [] self.cls = "MaxwellOperator" ->
                Gen(Elliptic_generate(self, "F_m", "curl"), <<>>, hs)
          [] self.cls \in {"HyperbolicOperator", "CompressibleEulerOperator"} ->
                Hyperbolic_generate(self, g0)
          [] self.cls = "CompressibleNavierStokesOperatorEntropyFormulation" ->
                Hyperbolic_generate(self, ell)
          [] self.cls = "CompressibleNavierStokesOperator" ->
                NavierStokes_adiabatic(Hyperbolic_generate(self, ell), self.H,
                                       self.adiabtic_wall_bcs)

NlsIdle ==
    /\ debug = TRUE
    /\ inst = NoInst /\ attempt = NoInst /\ lastError = "none"
    /\ x = NoVec /\ F = NoVec /\ u = NoVec /\ J = NoVec /\ P = NoVec
    /\ xv = 0 /\ ftrace = <<>> /\ jtrace = <<>>
    /\ lastCall = NoCall /\ prevCall = NoCall /\ calls = 0
    /\ lastJ = NoJCall /\ prevJ = NoJCall

InitOps ==
    /\ NlsIdle /\ TensorIdle
    /\ op = NoOp
    /\ Hstate = [h \in {"shared", "own"} |-> Uninitialized]
    /\ residual = <<>> /\ hcalls = <<>> /\ gens = 0

\* cls(mesh, V, bcs): a new operator; one that builds its own numerical flux
\* starts with it uninitialized
NewOperator(cls, bcs) ==
    /\ gens < MaxGens
    /\ op' = Operator_init(cls, bcs)
    /\ Hstate' = IF FluxOf(cls) = "own"
                 THEN [Hstate EXCEPT !["own"] = Uninitialized] ELSE Hstate
    /\ residual' = <<>> /\ hcalls' = <<>>
    /\ UNCHANGED <<gens, nlsVars, tensorVars>>

\* residual = op.generate_fem_formulation(u, v)
Generate ==
    /\ op # NoOp
    /\ gens < MaxGens
    /\ \E g \in {generate_fem_formulation(op, Hstate)} :
          /\ residual' = g.residual
          /\ hcalls' = g.hcalls
          /\ Hstate' = g.Hstate
    /\ gens' = gens + 1
    /\ UNCHANGED <<op, nlsVars, tensorVars>>

NextOps ==
    \/ \E cls \in OperatorClasses, bcs \in BCArgs : NewOperator(cls, bcs)
    \/ Generate

SpecOps == InitOps /\ [][NextOps]_vars

(***************************************************************************)
(* Properties of the operators.                                            *)
(***************************************************************************)
PathOfClass(cls) ==
    CASE cls = "DGDirichletBC" -> "dirichlet"
      [] cls = "DGNeumannBC" -> "neumann"
      [] cls = "DGAdiabticWallBC" -> "adiabatic"

\* the boundary-term paths through which condition bc contributes to res
PathsOf(res, bc) ==
    {res[i].path : i \in {i \in 1..Len(res) : res[i].bc = bc.function}}

Generated == op # NoOp /\ residual # <<>>

\* C8 as stated: whatever operator is given the list, every condition
\* contributes to the generated residual through exactly the path of its kind.
C8_EveryConditionRouted ==
    Generated =>
        \A i \in 1..Len(op.given) :
            PathsOf(residual, op.given[i]) = {PathOfClass(op.given[i].cls)}

\* C8 amended: CompressibleNavierStokesOperator routes every condition into
\* exactly the path of its kind; every other operator does so for Dirichlet
\* and Neumann conditions and generates no term for an adiabatic-wall
\* condition; no term is added twice.
C8_RoutedByKind ==
    Generated =>
        /\ \A i \in 1..Len(op.given) :
              PathsOf(residual, op.given[i]) =
                 IF op.cls = "CompressibleNavierStokesOperator"
                    \/ op.given[i].cls # "DGAdiabticWallBC"
                 THEN {PathOfClass(op.given[i].cls)} ELSE {}
        /\ \A i, j \in 1..Len(residual) : residual[i] = residual[j] => i = j

C8_Witness ==
    /\ Generated
    /\ op.cls = "CompressibleNavierStokesOperator"
    /\ {op.given[i].cls : i \in 1..Len(op.given)} = BCClasses

\* C9: every H.interior / H.exterior call of a residual generation finds the
\* instance holding the setup of the same flux, states and normal: a setup
\* call with those arguments precedes it, with no other setup on that
\* instance in between.
C9_SetupBeforeUse ==
    \A i \in 1..Len(hcalls) :
        hcalls[i].call \in {"interior", "exterior"} =>
            /\ hcalls[i].cached = hcalls[i].args
            /\ \E j \in 1..(i - 1) :
                  /\ hcalls[j].call = "setup" /\ hcalls[j].H = hcalls[i].H
                  /\ hcalls[j].args = hcalls[i].args
                  /\ \A m \in (j + 1)..(i - 1) :
                        ~(hcalls[m].call = "setup" /\ hcalls[m].H = hcalls[i].H)

C9_Witness ==
    /\ Generated /\ gens = MaxGens
    /\ op.cls = "CompressibleNavierStokesOperator"
    /\ op.dirichlet_bcs # <<>> /\ op.adiabtic_wall_bcs # <<>>
    /\ \E i \in 1..Len(hcalls) :
          hcalls[i].call = "exterior" /\ hcalls[i].cached = hcalls[i].args

\* how many terms of res equal t
CountOf(res, t) == Cardinality(At(res, t))

\* the functions prescribed by the conditions of the given class
FunctionsOf(self, cls) ==
    {self.given[i].function :
        i \in {i \in 1..Len(self.given) : self.given[i].cls = cls}}

\* what an operator of class cls built on the same conditions generates
ResidualOf(self, cls) ==
    generate_fem_formulation([self EXCEPT !.cls = cls], Hstate).residual

\* C13: the residual CompressibleNavierStokesOperator generates is the
\* residual EllipticOperator generates for the viscous flux F_v followed by
\* the residual CompressibleEulerOperator generates, followed by the terms of
\* the adiabatic-wall conditions: for each such condition exactly one
\* numerical-flux exterior term and exactly one SIPG exterior term built from
\* F_v_adiabatic, and no other term; F_v_adiabatic appears in no other term.
C13_NavierStokesComposition ==
    (Generated /\ op.cls = "CompressibleNavierStokesOperator") =>
        LET walls == FunctionsOf(op, "DGAdiabticWallBC")
            OnWall(t) == t.bc \in walls
            Bulk(t) == t.bc \notin walls
        IN  /\ SelectSeq(residual, Bulk)
                 = ResidualOf(op, "EllipticOperator")
                     \o ResidualOf(op, "CompressibleEulerOperator")
            /\ \A b \in walls :
                  /\ CountOf(residual, Term("adiabatic", "F_c", "H", b)) = 1
                  /\ CountOf(residual,
                             Term("adiabatic", "F_v_adiabatic", "sipg", b)) = 1
                  /\ Len(SelectSeq(residual, LAMBDA t : t.bc = b)) = 2
            /\ \A i \in 1..Len(residual) :
                  /\ residual[i].flux = "F_v_adiabatic" => OnWall(residual[i])
                  /\ OnWall(residual[i]) => residual[i].flux # "F_v"
                  /\ OnWall(residual[i]) =>
                        \A j \in 1..Len(residual) : ~OnWall(residual[j]) => j < i

\* a residual generated for two adiabatic walls and a Dirichlet condition
C13_Witness ==
    /\ Generated /\ op.cls = "CompressibleNavierStokesOperator"
    /\ Cardinality(FunctionsOf(op, "DGAdiabticWallBC")) = 2
    /\ FunctionsOf(op, "DGDirichletBC") # {}
    /\ Len(residual) = 10

(***************************************************************************)
(* test/unit/test_dg_form.py: the homogeneity tensor of a flux and its     *)
(* product with the gradient.  The gradient of a scalar u on a cell of     *)
(* dimension d is a vector of d values, that of a vector u with m          *)
(* components an m x d matrix.  homogeneity_tensor and hyper_tensor_product *)
(* are dolfin_dg.dg_form's.                                                *)
(***************************************************************************)
\* gradient samples have entries a*row + b*column + c with a, b, c in 0..MaxGrad
MaxGrad == 1
\* ufl.VectorElement(family, cell, p, dim=4)
VectorDim == 4

cells == {"interval", "triangle", "tetrahedron"}
families == {"CG", "DG"}
poly_os == {1, 2}

geometric_dimension(cell) ==
    CASE cell = "interval" -> 1 [] cell = "triangle" -> 2 [] cell = "tetrahedron" -> 3

scalar_eles ==
    [family : families, cell : cells, p : poly_os, shape : {"scalar"}]
vector_eles ==
    [family : families, cell : cells, p : poly_os, shape : {"vector"}]

\* the fixture F1: F_v(u, grad_u) = grad_u
\* a flux that returns the first gradient component in every slot
F1_first(u0, grad_u) == [p \in DOMAIN grad_u |-> grad_u[1]]

F1(u0, grad_u) == grad_u

\* ufl.Identity(d)
Identity(d) == [k \in 1..d |-> [l \in 1..d |-> IF k = l THEN 1 ELSE 0]]

\* grad(u) at the sample point of a case
Grad(c) ==
    LET d == geometric_dimension(c.element.cell)
    IN  IF c.element.shape = "scalar"
        THEN [l \in 1..d |-> c.b * l + c.c]
        ELSE [j \in 1..VectorDim |-> [l \in 1..d |-> c.a * j + c.b * l + c.c]]

\* homogeneity_tensor(F_v, u): the derivative of F_v(u, grad_u) with respect to
\* grad_u, taken through an auxiliary variable standing for grad_u and
\* evaluated at grad(u).  The derivative of a flux affine in grad_u is its
\* difference over a unit step of one gradient component.
homogeneity_tensor(c) ==
    LET d == geometric_dimension(c.element.cell)
        gu == Grad(c)
    IN  IF c.element.shape = "scalar"
        THEN [k \in 1..d |-> [l \in 1..d |->
                F1(c.c, [q \in 1..d |-> gu[q] + (IF q = l THEN 1 ELSE 0)])[k]
                    - F1(c.c, gu)[k]]]
        ELSE [i \in 1..VectorDim |-> [k \in 1..d |->
                [j \in 1..VectorDim |-> [l \in 1..d |->
                    F1(c.c, [p \in 1..VectorDim |-> [q \in 1..d |->
                            gu[p][q] + (IF p = j /\ q = l THEN 1 ELSE 0)]])[i][k]
                        - F1(c.c, gu)[i][k]]]]]

\* hyper_tensor_product(G, tau): dot(G, tau) for a rank-2 G, otherwise the
\* contraction of the last two indices of G with tau
hyper_tensor_product(c, G0, tau) ==
    LET d == geometric_dimension(c.element.cell)
    IN  IF c.element.shape = "scalar"
        THEN [k \in 1..d |-> SumSeq([l \in 1..d |-> G0[k][l] * tau[l]], 1)]
        ELSE [i \in 1..VectorDim |-> [k \in 1..d |->
                SumSeq([j \in 1..VectorDim |->
                          SumSeq([l \in 1..d |-> G0[i][k][j][l] * tau[j][l]], 1)], 1)]]

\* the identity operator on the gradient space of a case
IdentityOnGradients(c) ==
    LET d == geometric_dimension(c.element.cell)
    IN  IF c.element.shape = "scalar" THEN Identity(d)
        ELSE [i \in 1..VectorDim |-> [k \in 1..d |->
                [j \in 1..VectorDim |-> [l \in 1..d |->
                    IF i = j /\ k = l THEN 1 ELSE 0]]]]

\* dot(Identity(cell_dim), grad(u)), the identity acting on each gradient
DotIdentity(c) ==
    LET d == geometric_dimension(c.element.cell)
        gu == Grad(c)
    IN  IF c.element.shape = "scalar"
        THEN [k \in 1..d |-> SumSeq([l \in 1..d |-> Identity(d)[k][l] * gu[l]], 1)]
        ELSE [i \in 1..VectorDim |-> [k \in 1..d |->
                SumSeq([l \in 1..d |-> Identity(d)[k][l] * gu[i][l]], 1)]]

InitTensor ==
    /\ NlsIdle /\ OpsIdle
    /\ tcase \in [element : scalar_eles \cup vector_eles,
                  a : 0..MaxGrad, b : 0..MaxGrad, c : 0..MaxGrad]
    /\ tphase = "init" /\ G = <<>> /\ GF = <<>>

\* G = homogeneity_tensor(F1, u)
ComputeTensor ==
    /\ tphase = "init"
    /\ G' = homogeneity_tensor(tcase)
    /\ tphase' = "tensor"
    /\ UNCHANGED <<tcase, GF, nlsVars, opsVars>>

\* F = hyper_tensor_product(G, grad(u))
ComputeProduct ==
    /\ tphase = "tensor"
    /\ GF' = hyper_tensor_product(tcase, G, Grad(tcase))
    /\ tphase' = "product"
    /\ UNCHANGED <<tcase, G, nlsVars, opsVars>>

NextTensor == ComputeTensor \/ ComputeProduct

SpecTensor == InitTensor /\ [][NextTensor]_vars

====
